---- MODULE Spec2Model ----
(***************************************************************************)
(* A model of the hard-mode Wordle solver of src/hardwordle.py             *)
(* (class HardWordle) together with the construction of the outcome        *)
(* matrix M in src/main.py (make_M).                                       *)
(*                                                                         *)
(* Guess and word indices are 0-based, as in the Python code; sequences    *)
(* are TLA+ sequences, so Python's s[i] is s[i + 1] here.  Python's None   *)
(* is the integer -1 (no guess index and no result code is negative).      *)
(***************************************************************************)
EXTENDS Integers, Sequences, FiniteSets, TLC

VARIABLES
    word_dict,          \* self.word_dict: the answers (the first m entries of guess_dict)
    guess_dict,         \* self.guess_dict: every legal guess, answers first
    guess_dict_kind,    \* "list" or "ndarray": the container type passed as guess_dict
    M,                  \* self.M: M[g, w] = result code of guess g against word w
    global_guess_list,  \* self.global_guess_list: first guesses solve tries, in order
    guess_order,        \* self.guess_order
    hist,               \* self.hist
    tree,               \* self.tree
    solves,             \* number of solve invocations made on the instance so far
    call,               \* the operation invoked last and its arguments
    ret                 \* what that operation returned (or raised)

vars == <<word_dict, guess_dict, guess_dict_kind, M, global_guess_list,
          guess_order, hist, tree, solves, call, ret>>

(***************************************************************************)
(* Bounds of the model.                                                    *)
(***************************************************************************)
NumLetters == 3      \* letters are 1..NumLetters
WordLen == 2         \* letters per word (5 in the game)
DictSize == 4        \* entries of guess_dict in the exhaustively enumerated dictionaries
ClusterSize == 7     \* entries of the one-letter-apart dictionary
MaxAlpha == 11       \* direct solve_cost calls take alpha in 0..MaxAlpha, and a few large ones
MaxSolves == 2       \* solve invocations per instance

(***************************************************************************)
(* Program constants.                                                      *)
(***************************************************************************)
None == -1
MaxDepth == 5        \* the depth limit of solve_cost
Sentinel == 10000    \* the cost solve_cost returns for "not solvable"
EvalAlpha == 9999    \* the alpha main.eval passes to solve_cost

(***************************************************************************)
(* Sequence helpers (numpy / Python primitives).                           *)
(***************************************************************************)
Range(s) == {s[i] : i \in 1..Len(s)}

\* x in s
In(x, s) == \E i \in 1..Len(s) : s[i] = x

RECURSIVE SumSeq(_)
\* sum(s)
SumSeq(s) == IF s = <<>> THEN 0 ELSE Head(s) + SumSeq(Tail(s))

RECURSIVE MaxSeq(_)
\* max(s), s not empty
MaxSeq(s) ==
    IF Len(s) = 1 THEN s[1]
    ELSE LET t == MaxSeq(Tail(s)) IN IF s[1] >= t THEN s[1] ELSE t

RECURSIVE SetToSortedSeq(_)
\* the elements of a finite set of integers, ascending
SetToSortedSeq(S) ==
    IF S = {} THEN <<>>
    ELSE LET x == CHOOSE y \in S : \A z \in S : y <= z
         IN <<x>> \o SetToSortedSeq(S \ {x})

\* np.sort(s)
NpSort(s) == SortSeq(s, LAMBDA a, b : a < b)

\* np.unique(s, return_counts=True): the distinct values ascending, and how
\* often each occurs
NpUnique(s) ==
    LET u == SetToSortedSeq(Range(s))
    IN [unique |-> u,
        counts |-> [k \in 1..Len(u) |-> Cardinality({i \in 1..Len(s) : s[i] = u[k]})]]

\* np.argsort(counts), as 1-based positions; equal counts keep their order
\* (the insertion sort numpy applies to arrays this short)
NpArgsort(counts) ==
    SortSeq([k \in 1..Len(counts) |-> k],
            LAMBDA a, b : counts[a] < counts[b] \/ (counts[a] = counts[b] /\ a < b))

\* s[np.where(mask)[0]]: the entries of s whose mask entry is true, in order
RECURSIVE Where(_, _)
Where(s, mask) ==
    IF s = <<>> THEN <<>>
    ELSE IF mask[1] THEN <<s[1]>> \o Where(Tail(s), Tail(mask))
    ELSE Where(Tail(s), Tail(mask))

(***************************************************************************)
(* The outcome matrix: main.make_M.                                        *)
(***************************************************************************)
RECURSIVE Pow3(_)
Pow3(k) == IF k = 0 THEN 1 ELSE 3 * Pow3(k - 1)

\* one letter's clue as its position in 'GY_': G = 0, Y = 1, _ = 2
Clue(guess, word, i) ==
    IF guess[i] = word[i] THEN 0
    ELSE IF In(guess[i], word) THEN 1
    ELSE 2

\* results_dict.index(tuple(res)), results_dict = list(itertools.product('GY_', repeat=len))
get_results_idx(guess, word) ==
    LET digits == [i \in 1..Len(guess) |-> Clue(guess, word, i) * Pow3(Len(guess) - i)]
    IN SumSeq(digits)

make_M(dict) ==
    [p \in (0..Len(dict) - 1) \X (0..Len(dict) - 1) |->
        get_results_idx(dict[p[1] + 1], dict[p[2] + 1])]

(***************************************************************************)
(* HardWordle.solve_cost                                                   *)
(*                                                                         *)
(* The operators return, besides the code's (guess, cost), the recursive   *)
(* calls made, in order: "calls" is a sequence of records                  *)
(* [g, result, words, guess_words, alpha, d, ret].                         *)
(***************************************************************************)
\* self.M[g, s] for an index sequence s
Row(g, s) == [k \in 1..Len(s) |-> M[g, s[k]]]

\* s[np.where(row == result)[0]]
Filter(s, row, result) == Where(s, [k \in 1..Len(row) |-> row[k] = result])

(***************************************************************************)
(* Faulty variants of single steps of solve_cost and solve.  No            *)
(* specification uses them; each stands for a deviation of the code that a *)
(* property below has to be able to tell from the code.                    *)
(***************************************************************************)
\* the small-set case taken for one candidate only
BaseCaseSingleOnly(words, d) ==
    IF d > MaxDepth THEN [done |-> TRUE, guess |-> None, cost |-> Sentinel]
    ELSE IF d = MaxDepth /\ Len(words) > 1
         THEN [done |-> TRUE, guess |-> None, cost |-> Sentinel]
    ELSE IF Len(words) <= 1
         THEN [done |-> TRUE, guess |-> words[1], cost |-> 2 * Len(words) - 1]
    ELSE [done |-> FALSE, guess |-> None, cost |-> 0]

\* no stop at the last depth while candidates remain
BaseCaseNoLastDepth(words, d) ==
    IF d > MaxDepth THEN [done |-> TRUE, guess |-> None, cost |-> Sentinel]
    ELSE IF Len(words) <= 2
         THEN [done |-> TRUE, guess |-> words[1], cost |-> 2 * Len(words) - 1]
    ELSE [done |-> FALSE, guess |-> None, cost |-> 0]

\* the small-set case tested before the depth
BaseCaseSmallFirst(words, d) ==
    IF Len(words) <= 2
    THEN [done |-> TRUE, guess |-> words[1], cost |-> 2 * Len(words) - 1]
    ELSE IF d >= MaxDepth THEN [done |-> TRUE, guess |-> None, cost |-> Sentinel]
    ELSE [done |-> FALSE, guess |-> None, cost |-> 0]

\* the lower bound without the credit for a guess that is a candidate
MinPossibleCostNoCredit(n, counts, g, words) ==
    n + 2 * SumSeq(counts) - Len(counts)

\* the lower bound without the guess saved by each distinct result
MinPossibleCostNoSplit(n, counts, g, words) ==
    n + 2 * SumSeq(counts) - (IF In(g, words) THEN 1 ELSE 0)

\* the guess being made not counted for the word it finds
InitialCostShort(n) == n - 1

\* the guess set handed down as it is
NewGuessWordsUnfiltered(guess_words, guess_results, result) == guess_words

\* the heuristic counting a repeated letter of the guess each time
hWithRepeats(g) ==
    SumSeq([i \in 1..Len(guess_dict[g + 1]) |->
              Cardinality({p \in (1..Len(word_dict)) \X (1..Len(guess_dict[g + 1])) :
                             word_dict[p[1]][p[2]] = guess_dict[g + 1][i]})])

\* a later first guess of equal cost replaces the earlier one
SolveBetterOrEqual(cost, min_cost) == cost <= min_cost

\* lines 173-180: does solve_cost return before its loop?
BaseCase(words, d) ==
    IF d > MaxDepth THEN [done |-> TRUE, guess |-> None, cost |-> Sentinel]
    ELSE IF d = MaxDepth /\ Len(words) > 1
         THEN [done |-> TRUE, guess |-> None, cost |-> Sentinel]
    ELSE IF Len(words) <= 2
         THEN [done |-> TRUE, guess |-> words[1], cost |-> 2 * Len(words) - 1]
    ELSE [done |-> FALSE, guess |-> None, cost |-> 0]

\* line 195
MinPossibleCost(n, counts, g, words) ==
    n + 2 * SumSeq(counts) - Len(counts) - (IF In(g, words) THEN 1 ELSE 0)

\* line 187: every word costs the guess being made
InitialCost(n) == n

\* line 197: skip this guess?
Pruned(min_possible_cost, min_cost) == min_possible_cost >= min_cost

\* line 222
NewAlpha(min_cost, cost) == min_cost - cost

\* lines 228-230
Better(cost, min_cost) == cost < min_cost

\* line 224
NewGuessWords(guess_words, guess_results, result) == Filter(guess_words, guess_results, result)

RECURSIVE solve_cost(_, _, _, _)
RECURSIVE GuessLoop(_, _, _, _, _, _, _)
RECURSIVE ResultLoop(_, _, _, _, _, _, _, _, _)

\* lines 215-226: the loop over the results of guess g, from position j of "order"
ResultLoop(words, guess_words, g, order, j, cost, min_cost, d, calls) ==
    IF j > Len(order) THEN [cost |-> cost, calls |-> calls]
    ELSE IF cost >= min_cost THEN [cost |-> cost, calls |-> calls]
    ELSE IF order[j] = 0
         THEN ResultLoop(words, guess_words, g, order, j + 1, cost, min_cost, d, calls)
    ELSE LET result == order[j]
             new_alpha == NewAlpha(min_cost, cost)
             new_words == Filter(words, Row(g, words), result)
             new_guess_words == NewGuessWords(guess_words, Row(g, guess_words), result)
             sub == solve_cost(new_words, new_guess_words, new_alpha, d + 1)
             rec == [g |-> g, result |-> result, words |-> new_words,
                     guess_words |-> new_guess_words, alpha |-> new_alpha,
                     d |-> d + 1, ret |-> sub]
         IN ResultLoop(words, guess_words, g, order, j + 1, cost + sub.cost,
                       min_cost, d, Append(calls, rec))

\* lines 186-237: the loop over the sorted guesses, from position i
GuessLoop(words, guess_words, i, min_guess, min_cost, d, calls) ==
    IF i > Len(guess_words)
    THEN [guess |-> min_guess, cost |-> min_cost, calls |-> calls]
    ELSE
    LET g == guess_words[i]
        n == Len(words)
        u == NpUnique(Row(g, words))
        min_possible_cost == MinPossibleCost(n, u.counts, g, words)
    IN
    IF Pruned(min_possible_cost, min_cost)
    THEN GuessLoop(words, guess_words, i + 1, min_guess, min_cost, d, calls)
    ELSE IF ~In(g, words) /\ min_cost = 2 * n
    THEN [guess |-> min_guess, cost |-> min_cost, calls |-> calls]
    ELSE IF ~In(g, words) /\ MaxSeq(u.counts) = n
    THEN GuessLoop(words, guess_words, i + 1, min_guess, min_cost, d, calls)
    ELSE
    LET perm == NpArgsort(u.counts)
        order == [k \in 1..Len(perm) |-> u.unique[perm[k]]]
        rl == ResultLoop(words, guess_words, g, order, 1, InitialCost(n), min_cost, d, calls)
        better == Better(rl.cost, min_cost)
        new_guess == IF better THEN g ELSE min_guess
        new_cost == IF better THEN rl.cost ELSE min_cost
    IN
    IF new_cost = 2 * Len(words) - 1
    THEN [guess |-> new_guess, cost |-> new_cost, calls |-> rl.calls]
    ELSE GuessLoop(words, guess_words, i + 1, new_guess, new_cost, d, rl.calls)

\* lines 156-237
solve_cost(words, guess_words, alpha, d) ==
    LET base == BaseCase(words, d)
    IN IF base.done
       THEN [guess |-> base.guess, cost |-> base.cost, calls |-> <<>>]
       ELSE GuessLoop(words, NpSort(guess_words), 1, None, alpha, d, <<>>)

RECURSIVE GuessTrace(_, _, _, _, _, _)
\* lines 186-237 once more, for what the loop does with each guess it reaches:
\* a sequence of records [g, min_cost, bound, step], min_cost the best cost
\* when the loop reaches g, bound the min_possible_cost of g, and step
\*   "pruned"   line 198 (continue),   "stop"     line 204 (return),
\*   "useless"  line 208 (continue),   "explored" lines 213-230, the loop goes on,
\*   "optimal"  lines 213-235 (return)
GuessTrace(words, guess_words, i, min_guess, min_cost, d) ==
    IF i > Len(guess_words) THEN <<>>
    ELSE
    LET g == guess_words[i]
        n == Len(words)
        u == NpUnique(Row(g, words))
        min_possible_cost == MinPossibleCost(n, u.counts, g, words)
        at(step) == [g |-> g, min_cost |-> min_cost, bound |-> min_possible_cost,
                     step |-> step]
    IN
    IF Pruned(min_possible_cost, min_cost)
    THEN <<at("pruned")>> \o GuessTrace(words, guess_words, i + 1, min_guess, min_cost, d)
    ELSE IF ~In(g, words) /\ min_cost = 2 * n
    THEN <<at("stop")>>
    ELSE IF ~In(g, words) /\ MaxSeq(u.counts) = n
    THEN <<at("useless")>> \o GuessTrace(words, guess_words, i + 1, min_guess, min_cost, d)
    ELSE
    LET perm == NpArgsort(u.counts)
        order == [k \in 1..Len(perm) |-> u.unique[perm[k]]]
        rl == ResultLoop(words, guess_words, g, order, 1, InitialCost(n), min_cost, d, <<>>)
        better == Better(rl.cost, min_cost)
        new_guess == IF better THEN g ELSE min_guess
        new_cost == IF better THEN rl.cost ELSE min_cost
    IN
    IF new_cost = 2 * Len(words) - 1
    THEN <<at("optimal")>>
    ELSE <<at("explored")>> \o GuessTrace(words, guess_words, i + 1, new_guess, new_cost, d)

\* the guesses the loop of solve_cost(words, guess_words, alpha, d) reaches, in order
solve_cost_trace(words, guess_words, alpha, d) ==
    IF BaseCase(words, d).done THEN <<>>
    ELSE GuessTrace(words, NpSort(guess_words), 1, None, alpha, d)

(***************************************************************************)
(* HardWordle.__init__                                                     *)
(***************************************************************************)
Letters == 1..NumLetters

\* self.letter_freqs[letter]
LetterFreq(letter) ==
    SumSeq([k \in 1..Len(word_dict) |->
              Cardinality({i \in 1..Len(word_dict[k]) : word_dict[k][i] = letter})])

\* HardWordle.h
h(g) ==
    LET letters == SetToSortedSeq(Range(guess_dict[g + 1]))
    IN SumSeq([k \in 1..Len(letters) |-> LetterFreq(letters[k])])

\* sorted(range(self.n), key=h, reverse=True): Python's sort is stable, and
\* stays so under reverse=True
GuessOrder ==
    SortSeq([k \in 1..Len(guess_dict) |-> k - 1],
            LAMBDA a, b : h(a) > h(b) \/ (h(a) = h(b) /\ a < b))

NoCall == [op |-> "none"]
NoRet == [kind |-> "none"]

\* The instance HardWordle(M, word_dict, guess_dict, results_dict, ggl) for the
\* data make_M builds from the dictionary gd whose first m entries are the answers
Construct(gd, m, kind, ggl) ==
    /\ guess_dict = gd
    /\ word_dict = SubSeq(gd, 1, m)
    /\ guess_dict_kind = kind
    /\ M = make_M(gd)
    /\ guess_order = GuessOrder
    /\ global_guess_list = (IF ggl = <<>> THEN guess_order ELSE ggl)
    /\ hist = <<>>
    /\ tree = <<>>
    /\ solves = 0
    /\ call = NoCall
    /\ ret = NoRet

(***************************************************************************)
(* The dictionaries the model is run on.                                   *)
(***************************************************************************)
AllWords == [1..WordLen -> Letters]

RECURSIVE WordCode(_)
\* a word as a number, so that dictionaries can be listed alphabetically
WordCode(w) == IF w = <<>> THEN 0 ELSE WordCode(SubSeq(w, 1, Len(w) - 1)) * (NumLetters + 1) + w[Len(w)]

Alphabetical(S) ==
    LET codes == SetToSortedSeq({WordCode(w) : w \in S})
    IN [k \in 1..Len(codes) |-> CHOOSE w \in S : WordCode(w) = codes[k]]

\* every alphabetical dictionary of DictSize words
SmallDicts == {Alphabetical(S) : S \in {T \in SUBSET AllWords : Cardinality(T) = DictSize}}

(***************************************************************************)
(* Direct calls of solve_cost (as main.eval makes them).                   *)
(***************************************************************************)
Ascending(S) == SetToSortedSeq(S)

Alphas == (0..MaxAlpha) \cup {EvalAlpha, Sentinel, Sentinel + MaxAlpha}
Depths == 0..(MaxDepth + 1)

CallSolveCost(words, guess_words, alpha, d) ==
    /\ call' = [op |-> "solve_cost", words |-> words, guess_words |-> guess_words,
                alpha |-> alpha, d |-> d]
    /\ ret' = [kind |-> "cost", value |-> solve_cost(words, guess_words, alpha, d),
                trace |-> solve_cost_trace(words, guess_words, alpha, d)]
    /\ UNCHANGED <<word_dict, guess_dict, guess_dict_kind, M, global_guess_list,
                   guess_order, hist, tree, solves>>

\* a dictionary of three answers and two further guesses, in which the best
\* first guess on the answers costs twice their number
Padded(a, b) == [i \in 1..WordLen |-> IF i = 1 THEN a ELSE IF i = 2 THEN b ELSE 1]
WideDict == <<Padded(1, 1), Padded(1, 2), Padded(1, 3), Padded(2, 1), Padded(2, 2)>>

\* a dictionary of answers that differ in the first letter only: every guess
\* leaves the other candidates together, so that the recursion runs deep
SmallCluster ==
    [k \in 1..(ClusterSize - 2) |-> [i \in 1..WordLen |-> IF i = 1 THEN k + 1 ELSE 1]]

InitCost ==
    \/ \E gd \in SmallDicts : \E m \in 1..Len(gd) : Construct(gd, m, "list", <<>>)
    \/ Construct(WideDict, Len(WideDict) - 2, "list", <<>>)
    \/ Construct(SmallCluster, Len(SmallCluster), "list", <<>>)

\* solve_cost reads nothing that an earlier call wrote (self.hist and self.tree
\* are solve's), so one call per behaviour covers every call
NextCost ==
    /\ call.op = "none"
    /\ \E G \in SUBSET (0..Len(guess_dict) - 1) :
         \E W \in (SUBSET (G \cap (0..Len(word_dict) - 1))) \ {{}} :
           \E alpha \in Alphas, d \in Depths :
             CallSolveCost(Ascending(W), Ascending(G), alpha, d)

SpecCost == InitCost /\ [][NextCost]_vars

(***************************************************************************)
(* HardWordle.solve                                                        *)
(***************************************************************************)
\* line 93
InitialMinCost(words) == 4 * Len(words)

\* line 119
SolveAlpha(min_cost, cost) == min_cost - cost

\* line 138
SolveBetter(cost, min_cost) == cost < min_cost

\* line 124: self.tree[key] = value
TreePut(t, key, value) ==
    [k \in (DOMAIN t) \cup {key} |-> IF k = key THEN value ELSE t[k]]

\* s.pop()
Pop(s) == SubSeq(s, 1, Len(s) - 1)

RECURSIVE SolveResultLoop(_, _, _, _, _, _, _, _, _, _)
\* lines 111-136: the loop over the results of first guess g, from position j of "order"
SolveResultLoop(words, guess_words, g, order, j, cost, min_cost, h0, t0, calls) ==
    IF j > Len(order)
    THEN [cost |-> cost, hist |-> h0, tree |-> t0, calls |-> calls]
    ELSE IF order[j] = 0
    THEN SolveResultLoop(words, guess_words, g, order, j + 1, cost, min_cost, h0, t0, calls)
    ELSE
    LET result == order[j]
        h1 == Append(h0, result)
        new_words == Filter(words, Row(g, words), result)
        new_guess_words == Filter(guess_words, Row(g, guess_words), result)
        alpha == SolveAlpha(min_cost, cost)
        sub == solve_cost(new_words, new_guess_words, alpha, 1)
        t1 == TreePut(t0, h1, <<sub.guess, sub.cost>>)
        cost1 == cost + sub.cost
        rec == [g |-> g, result |-> result, words |-> new_words,
                guess_words |-> new_guess_words, alpha |-> alpha, d |-> 1, ret |-> sub]
    IN
    IF cost1 >= min_cost
    THEN [cost |-> cost1, hist |-> Pop(h1), tree |-> t1, calls |-> Append(calls, rec)]
    ELSE SolveResultLoop(words, guess_words, g, order, j + 1, cost1, min_cost,
                         Pop(h1), t1, Append(calls, rec))

RECURSIVE SolveGuessLoop(_, _, _, _, _, _, _, _)
\* lines 99-144: the loop over self.global_guess_list, from position i
SolveGuessLoop(words, guess_words, i, guess, min_cost, h0, t0, calls) ==
    IF i > Len(global_guess_list)
    THEN [guess |-> guess, min_cost |-> min_cost, hist |-> h0, tree |-> t0, calls |-> calls]
    ELSE
    LET g == global_guess_list[i]
        u == NpUnique(Row(g, words))
        perm == NpArgsort(u.counts)
        order == [k \in 1..Len(perm) |-> u.unique[perm[k]]]
        rl == SolveResultLoop(words, guess_words, g, order, 1, Len(words), min_cost,
                              Append(h0, g), t0, calls)
        better == SolveBetter(rl.cost, min_cost)
    IN SolveGuessLoop(words, guess_words, i + 1,
                      IF better THEN g ELSE guess,
                      IF better THEN rl.cost ELSE min_cost,
                      Pop(rl.hist), rl.tree, rl.calls)

\* line 146: self.guess_dict[guess] raises TypeError for a list indexed by None
\* (a numpy array indexed by None gives a view, and no error)
GuessWordRaises(guess) == guess = None /\ guess_dict_kind = "list"

\* lines 152-153
SolutionTree(t, guess, min_cost) ==
    [k \in {x \in DOMAIN t : x[1] = guess} \cup {<<>>} |->
        IF k = <<>> THEN <<guess, min_cost>> ELSE t[k]]

\* lines 74-154
Solve(words, guess_words) ==
    \E out \in {SolveGuessLoop(words, guess_words, 1, None, InitialMinCost(words),
                              hist, tree, <<>>)} :
       /\ solves' = solves + 1
       /\ call' = [op |-> "solve", words |-> words, guess_words |-> guess_words]
       /\ hist' = out.hist
       /\ tree' = out.tree
       /\ ret' = IF GuessWordRaises(out.guess)
                 THEN [kind |-> "TypeError", guess |-> out.guess,
                       min_cost |-> out.min_cost, calls |-> out.calls]
                 ELSE [kind |-> "tree",
                       tree |-> SolutionTree(out.tree, out.guess, out.min_cost),
                       guess |-> out.guess, min_cost |-> out.min_cost,
                       calls |-> out.calls]
       /\ UNCHANGED <<word_dict, guess_dict, guess_dict_kind, M, global_guess_list,
                      guess_order>>

(***************************************************************************)
(* The instances and the arguments solve is run on.                        *)
(***************************************************************************)
\* the dictionary whose words differ in their first letter only
ClusterDict ==
    [k \in 1..ClusterSize |-> [i \in 1..WordLen |-> IF i = 1 THEN k + 1 ELSE 1]]

\* the guess lists a caller passes: none, or up to two guesses (main.solve)
GuessLists(n) ==
    {<<>>} \cup {<<a>> : a \in 0..n - 1} \cup {<<a, b>> : a, b \in 0..n - 1}

\* words and guess_words as main.interactive narrows them (lines 187-189)
Narrow(p, g, r) ==
    [words |-> Filter(p.words, Row(g, p.words), r),
     guess_words |-> Filter(p.guess_words, Row(g, p.guess_words), r)]

\* words and guess_words as main.solve and main.interactive start (lines 169-171)
Full == [words |-> [k \in 1..Len(word_dict) |-> k - 1], guess_words |-> guess_order]

\* the arguments of solve: the full sets, or those after one clue
SolveArgs ==
    {Full} \cup
    {p \in {Narrow(Full, g, M[g, w]) : g \in 0..Len(guess_dict) - 1,
                                      w \in 0..Len(word_dict) - 1} : TRUE}

Kinds == {"list", "ndarray"}

Init ==
    \/ \E gd \in SmallDicts : \E m \in 1..Len(gd) :
         \E kind \in Kinds, ggl \in GuessLists(Len(gd)) : Construct(gd, m, kind, ggl)
    \/ \E kind \in Kinds : Construct(ClusterDict, ClusterSize, kind, <<>>)

Next ==
    /\ solves < MaxSolves
    /\ \E p \in SolveArgs : Solve(p.words, p.guess_words)

Spec == Init /\ [][Next]_vars

(***************************************************************************)
(* The reference the claims are measured against: the least total number   *)
(* of guesses of a hard-mode strategy that finds every word of W, when the *)
(* legal guesses are G and d guesses are already made.  Unsolvable stands  *)
(* for "no strategy finishes within the budget of MaxDepth + 1 guesses".   *)
(***************************************************************************)
Unsolvable == Sentinel * Sentinel

Min(S) == CHOOSE x \in S : \A y \in S : x <= y

Saturate(x) == IF x >= Unsolvable THEN Unsolvable ELSE x

ResultsOn(g, W) == {M[g, w] : w \in W}

Part(S, g, r) == {x \in S : M[g, x] = r}

RECURSIVE Opt(_, _, _)
RECURSIVE PlayCost(_, _, _, _)

\* guess g now (guess number d + 1), then play on optimally
PlayCost(g, W, G, d) ==
    IF d > MaxDepth THEN Unsolvable
    ELSE LET rs == SetToSortedSeq(ResultsOn(g, W) \ {0})
         IN Saturate(Cardinality(W) +
                     SumSeq([k \in 1..Len(rs) |->
                               Opt(Part(W, g, rs[k]), Part(G, g, rs[k]), d + 1)]))

Opt(W, G, d) ==
    IF W = {} THEN 0
    ELSE IF G = {} \/ d > MaxDepth THEN Unsolvable
    ELSE Min({PlayCost(g, W, G, d) : g \in G})

\* the optimum as solve_cost reports it: the sentinel when there is none
OptClaim(W, G, d) == IF Opt(W, G, d) >= Unsolvable THEN Sentinel ELSE Opt(W, G, d)

CostCall == call.op = "solve_cost"
CallW == Range(call.words)
CallG == Range(call.guess_words)

(***************************************************************************)
(* C1 (as stated): for alpha <= 10000 and d in 0..5, solve_cost returns a  *)
(* cost equal to the optimum OPT or a cost >= alpha; never a cost below    *)
(* OPT, and never a cost strictly between OPT and alpha.                   *)
(***************************************************************************)
C1_AsStated ==
    (CostCall /\ call.d <= MaxDepth /\ call.alpha <= Sentinel) =>
        LET opt == OptClaim(CallW, CallG, call.d)
            c == ret.value.cost
        IN /\ c = opt \/ c >= call.alpha
           /\ c >= opt
           /\ ~(opt < c /\ c < call.alpha)

(***************************************************************************)
(* C1 (amended): for alpha <= 10000 and d in 0..5, solve_cost returns a    *)
(* cost equal to OPT or a cost >= alpha; never a cost below the smaller of *)
(* OPT and alpha, and never a cost strictly between OPT and alpha.         *)
(***************************************************************************)
C1_PruningCorrect ==
    (CostCall /\ call.d <= MaxDepth /\ call.alpha <= Sentinel) =>
        LET opt == OptClaim(CallW, CallG, call.d)
            c == ret.value.cost
        IN /\ c = opt \/ c >= call.alpha
           /\ c >= (IF opt <= call.alpha THEN opt ELSE call.alpha)
           /\ ~(opt < c /\ c < call.alpha)

\* a call on four words that recursed two levels deep and returned the optimum,
\* below its alpha
C1_Witness ==
    /\ CostCall /\ call.d <= MaxDepth /\ call.alpha <= Sentinel
    /\ Len(call.words) >= 4
    /\ ret.value.cost = OptClaim(CallW, CallG, call.d)
    /\ ret.value.cost < call.alpha
    /\ \E i \in 1..Len(ret.value.calls) : ret.value.calls[i].ret.calls # <<>>

(***************************************************************************)
(* C2 (as stated): for every candidate set of size n <= 2, every guess     *)
(* set, alpha and depth, solve_cost returns the first candidate and cost   *)
(* 2n - 1 without recursing.  (Stated for the depths 0..5 of the game; it  *)
(* fails above them too.)                                                  *)
(***************************************************************************)
C2_AsStated ==
    (CostCall /\ Len(call.words) <= 2 /\ call.d <= MaxDepth) =>
        ret.value = [guess |-> call.words[1], cost |-> 2 * Len(call.words) - 1,
                     calls |-> <<>>]

(***************************************************************************)
(* C2 (amended): for every candidate set of size n = 1 or 2, every guess   *)
(* set and alpha, and every depth d <= 4 (also d = 5 when n = 1),          *)
(* solve_cost returns the first candidate and cost 2n - 1 without          *)
(* recursing.                                                              *)
(***************************************************************************)
C2_SmallSets ==
    (/\ CostCall
     /\ Len(call.words) \in {1, 2}
     /\ call.d < MaxDepth \/ (call.d = MaxDepth /\ Len(call.words) = 1)) =>
        ret.value = [guess |-> call.words[1], cost |-> 2 * Len(call.words) - 1,
                     calls |-> <<>>]

\* two candidates, the higher-indexed one first in no guess set order, one guess
\* before the last, with an alpha below the cost returned
C2_Witness ==
    /\ CostCall
    /\ Len(call.words) = 2
    /\ call.d = MaxDepth - 1
    /\ call.alpha < 3
    /\ call.guess_words[1] # call.words[1]
    /\ ret.value.guess = call.words[1]
    /\ ret.value.cost = 3

(***************************************************************************)
(* C3: a call at depth 5 with more than one candidate, or at any depth     *)
(* above 5, returns the sentinel cost 10000 and no guess, whatever the     *)
(* guess set and alpha.                                                    *)
(***************************************************************************)
C3_DepthExhausted ==
    (CostCall /\ ((call.d = 5 /\ Len(call.words) > 1) \/ call.d > 5)) =>
        /\ ret.value.guess = None
        /\ ret.value.cost = 10000

\* the last depth, two candidates, an alpha the real cost of two words is below
C3_Witness ==
    /\ CostCall
    /\ call.d = 5
    /\ Len(call.words) = 2
    /\ call.alpha > 3
    /\ ret.value.cost = 10000

(***************************************************************************)
(* C4: with n >= 3 candidates, d < 5 and alpha > 2n - 1, if some guess of  *)
(* the guess set is a candidate and gives every other candidate a distinct *)
(* result, solve_cost returns the lowest-indexed such guess and the cost   *)
(* 2n - 1.                                                                 *)
(***************************************************************************)
Separates(g, W) ==
    /\ g \in W
    /\ \A w1, w2 \in W \ {g} : w1 # w2 => M[g, w1] # M[g, w2]

C4_PerfectGuess ==
    (/\ CostCall
     /\ Len(call.words) >= 3
     /\ call.d < 5
     /\ call.alpha > 2 * Len(call.words) - 1
     /\ \E g \in CallG : Separates(g, CallW)) =>
        /\ ret.value.guess = Min({g \in CallG : Separates(g, CallW)})
        /\ ret.value.cost = 2 * Len(call.words) - 1

\* four candidates; the separating guess is not the first guess tried, and an
\* earlier guess was explored (it made recursive calls)
C4_Witness ==
    /\ CostCall
    /\ Len(call.words) = 4
    /\ call.d < 5
    /\ call.alpha > 7
    /\ \E g \in CallG : Separates(g, CallW)
    /\ ret.value.cost = 7
    /\ ret.value.guess # call.guess_words[1]
    /\ \E i \in 1..Len(ret.value.calls) : ret.value.calls[i].g # ret.value.guess

(***************************************************************************)
(* C9: for every alpha, also above 10000, a guess that is not absent comes *)
(* with a cost below 10000 which is the cost of a strategy that finds      *)
(* every candidate within the budget.                                      *)
(***************************************************************************)
C9_SentinelNeverWithGuess ==
    (CostCall /\ ret.value.guess # None) =>
        /\ ret.value.cost < 10000
        /\ Opt(CallW, CallG, call.d) <= ret.value.cost

\* what the code does keep: the same with alpha <= 10000
C9_UpToSentinel ==
    (CostCall /\ call.alpha <= Sentinel /\ ret.value.guess # None) =>
        /\ ret.value.cost < 10000
        /\ PlayCost(ret.value.guess, CallW, CallG, call.d) = ret.value.cost

(***************************************************************************)
(* solve: what the claims are measured against.                            *)
(***************************************************************************)
SolveCall == call.op = "solve"
SolveW == Range(call.words)
SolveG == Range(call.guess_words)

\* the total cost of first guess g: one guess per word, and the optimum of
\* every partition but the solved one, one guess in
FirstCost(g) ==
    LET rs == SetToSortedSeq(ResultsOn(g, SolveW) \ {0})
    IN Cardinality(SolveW) +
       SumSeq([k \in 1..Len(rs) |->
                 OptClaim(Part(SolveW, g, rs[k]), Part(SolveG, g, rs[k]), 1)])

BestFirstCost == Min({FirstCost(g) : g \in Range(global_guess_list)})

\* the first guess of the priority list whose total cost is the least
BestFirstGuess ==
    global_guess_list[Min({i \in 1..Len(global_guess_list) :
                             FirstCost(global_guess_list[i]) = BestFirstCost})]

(***************************************************************************)
(* C5: solve returns a tree whose empty-path entry is (gbest, cbest):      *)
(* cbest the least, over the guesses g of the priority list, of |words|    *)
(* plus the sum of the optimal depth-1 costs of the non-zero partitions of *)
(* words under g, and gbest the first guess of the list that attains cbest *)
(* (whenever cbest < 4 |words|).                                           *)
(***************************************************************************)
C5_RootEntry ==
    (SolveCall /\ BestFirstCost < 4 * Len(call.words)) =>
        /\ ret.kind = "tree"
        /\ ret.tree[<<>>] = <<BestFirstGuess, BestFirstCost>>

\* three or more words; the best first guess is not the first of the list, and
\* the guess before it is strictly worse
C5_Witness ==
    /\ SolveCall
    /\ Len(call.words) >= 3
    /\ BestFirstCost < 4 * Len(call.words)
    /\ ret.kind = "tree"
    /\ ret.tree[<<>>][1] # global_guess_list[1]
    /\ FirstCost(global_guess_list[1]) > BestFirstCost
    /\ FirstCost(global_guess_list[1]) < 4 * Len(call.words)

(***************************************************************************)
(* C6: after any sequence of solve invocations on one instance, the tree   *)
(* an invocation returns holds exactly the empty path and one entry        *)
(* (gbest, r) for each non-zero result r of the winning guess gbest on     *)
(* that invocation's words.                                                *)
(***************************************************************************)
WinningKeys ==
    IF ret.guess = None THEN {}
    ELSE {<<ret.guess, r>> : r \in ResultsOn(ret.guess, SolveW) \ {0}}

C6_TreeKeys ==
    (SolveCall /\ ret.kind = "tree") =>
        DOMAIN ret.tree = {<<>>} \cup WinningKeys

\* what the code does keep: the same for the first invocation on an instance
C6_FirstInvocation ==
    (SolveCall /\ ret.kind = "tree" /\ solves = 1) =>
        DOMAIN ret.tree = {<<>>} \cup WinningKeys

(***************************************************************************)
(* C7: in the tree solve returns, for any priority list (also one that     *)
(* repeats a guess), every entry (gbest, r) -> (g2, c) has a guess g2, and *)
(* c is the number of guesses the optimal strategy from g2 takes over the  *)
(* words of the partition r of gbest; the root cost is |words| plus the    *)
(* sum of these c.  (Stated for the first invocation on an instance.)      *)
(***************************************************************************)
EntryOptimal(key) ==
    LET g2 == ret.tree[key][1]
        c == ret.tree[key][2]
        W == Part(SolveW, key[1], key[2])
        G == Part(SolveG, key[1], key[2])
    IN /\ g2 # None
       /\ c = PlayCost(g2, W, G, 1)
       /\ c = Opt(W, G, 1)

EntryCost(key) == ret.tree[key][2]

\* the root cost is |words| plus the sum of the costs of the other entries
RootIsSum ==
    LET keys == DOMAIN ret.tree \ {<<>>}
        rs == SetToSortedSeq({k[2] : k \in keys})
        g == ret.tree[<<>>][1]
    IN g # None =>
         EntryCost(<<>>) =
           Len(call.words) + SumSeq([i \in 1..Len(rs) |-> EntryCost(<<g, rs[i]>>)])

C7_ReplayConsistent ==
    (SolveCall /\ ret.kind = "tree" /\ solves = 1) =>
        /\ \A k \in DOMAIN ret.tree \ {<<>>} : EntryOptimal(k)
        /\ RootIsSum

\* what the code does keep: the same when no guess of the list is repeated
NoRepeats == \A i, j \in 1..Len(global_guess_list) :
                 global_guess_list[i] = global_guess_list[j] => i = j

C7_WithoutRepeats ==
    (SolveCall /\ ret.kind = "tree" /\ solves = 1 /\ NoRepeats) =>
        /\ \A k \in DOMAIN ret.tree \ {<<>>} : EntryOptimal(k)
        /\ RootIsSum

(***************************************************************************)
(* C8: when no first guess of the priority list has a total cost below the *)
(* initial bound 4 |words|, solve still returns, and reports an absent     *)
(* guess with the sentinel cost 10000 at the empty path.                   *)
(***************************************************************************)
C8_NoGuessReported ==
    (SolveCall /\ BestFirstCost >= 4 * Len(call.words)) =>
        /\ ret.kind = "tree"
        /\ ret.tree[<<>>] = <<None, 10000>>

\* what the code does in that case
C8_WhatTheCodeDoes ==
    (SolveCall /\ BestFirstCost >= 4 * Len(call.words)) =>
        \/ guess_dict_kind = "list" /\ ret.kind = "TypeError"
        \/ /\ guess_dict_kind = "ndarray"
           /\ ret.kind = "tree"
           /\ ret.tree[<<>>] = <<None, 4 * Len(call.words)>>

(***************************************************************************)
(* C10: at every recursive call reached from solve or solve_cost, the      *)
(* guess set passed down is a subset of the caller's and holds only        *)
(* guesses g' with M[g, g'] = r for every (guess g, result r) on the path  *)
(* from the root to the call; so it never grows along a path and never     *)
(* holds a guess already made on the path.                                 *)
(***************************************************************************)
RECURSIVE CallsBelow(_, _, _)
\* every call of the call tree "calls" made by a caller whose path is "path" and
\* whose guess set is "caller": its path, its guess set and its caller's
CallsBelow(calls, path, caller) ==
    UNION {LET c == calls[i]
               p == path \o <<c.g, c.result>>
           IN {[path |-> p, guess_words |-> c.guess_words, caller |-> caller]}
              \cup CallsBelow(c.ret.calls, p, c.guess_words)
           : i \in 1..Len(calls)}

C10_GuessSetNarrows ==
    (SolveCall /\ ret.kind \in {"tree", "TypeError"}) =>
        \A c \in CallsBelow(ret.calls, <<>>, call.guess_words) :
            /\ Range(c.guess_words) \subseteq Range(c.caller)
            /\ \A k \in 1..(Len(c.path) \div 2) :
                  LET g == c.path[2 * k - 1]
                      r == c.path[2 * k]
                  IN /\ \A x \in Range(c.guess_words) : M[g, x] = r
                     /\ g \notin Range(c.guess_words)

\* a call two guesses below solve whose guess set is strictly smaller than its
\* caller's, its caller's strictly smaller than solve's
C10_Witness ==
    /\ SolveCall
    /\ ret.kind = "tree"
    /\ \E c \in CallsBelow(ret.calls, <<>>, call.guess_words) :
          /\ Len(c.path) = 4
          /\ Range(c.guess_words) # {}
          /\ Range(c.guess_words) # Range(c.caller)
          /\ Range(c.caller) # SolveG

(***************************************************************************)
(* The heuristic the claims are measured against: for each distinct letter *)
(* of the guess, the number of places of the answer dictionary holding it. *)
(***************************************************************************)
Occurrences(letter) ==
    Cardinality({p \in (1..Len(word_dict)) \X (1..WordLen) : word_dict[p[1]][p[2]] = letter})

RECURSIVE SumOver(_, _)
SumOver(S, count) ==
    IF S = {} THEN 0
    ELSE LET x == CHOOSE y \in S : TRUE IN count[x] + SumOver(S \ {x}, count)

Heuristic(g) ==
    LET letters == {guess_dict[g + 1][i] : i \in 1..WordLen}
    IN SumOver(letters, [l \in letters |-> Occurrences(l)])

(***************************************************************************)
(* C11: guess_order is a permutation of all guess indices, sorted by the   *)
(* heuristic descending (the heuristic of a guess being the sum of the     *)
(* answer-dictionary occurrence counts of its distinct letters); guesses   *)
(* of equal heuristic appear in ascending index order.                     *)
(***************************************************************************)
C11_GuessOrder ==
    /\ Len(guess_order) = Len(guess_dict)
    /\ Range(guess_order) = 0..(Len(guess_dict) - 1)
    /\ \A i, j \in 1..Len(guess_order) :
          i < j =>
            \/ Heuristic(guess_order[i]) > Heuristic(guess_order[j])
            \/ /\ Heuristic(guess_order[i]) = Heuristic(guess_order[j])
               /\ guess_order[i] < guess_order[j]

\* an instance with two guesses of equal heuristic, a guess that repeats a
\* letter, and an order that is not the index order
C11_Witness ==
    /\ \E i, j \in 1..Len(guess_order) :
          i < j /\ Heuristic(guess_order[i]) = Heuristic(guess_order[j])
    /\ \E g \in 1..Len(guess_dict) : guess_dict[g][1] = guess_dict[g][2]
    /\ \E i \in 1..Len(guess_order) : guess_order[i] # i - 1
    /\ Len(word_dict) < Len(guess_dict)

(***************************************************************************)
(* C12: within one solve_cost call, for any guess set and candidate set,   *)
(* every guess that is a member of words is evaluated before any guess     *)
(* that is not: the loop never reaches a member of words after a guess     *)
(* that is not one.                                                        *)
(***************************************************************************)
C12_WordsFirst ==
    CostCall =>
        \A i, j \in 1..Len(ret.trace) :
            (i < j /\ In(ret.trace[j].g, call.words)) => In(ret.trace[i].g, call.words)

\* the sets of a call are "narrowed" when every answer of the guess set is a
\* candidate, as in the sets main.py derives from the full ones
NarrowedCall == \A g \in CallG : g < Len(word_dict) => g \in CallW

\* what the code does keep: the same for narrowed sets
C12_WordsFirstWhenNarrowed ==
    (CostCall /\ NarrowedCall) => C12_WordsFirst

(***************************************************************************)
(* C13: within one solve_cost call on n candidates, once the best cost so  *)
(* far equals 2n and the loop reaches a guess that is not in words, the    *)
(* call returns at once with the best guess and cost so far: that guess is *)
(* the last one the loop reaches.                                          *)
(***************************************************************************)
AtTrivialBound(i) ==
    /\ ret.trace[i].min_cost = 2 * Len(call.words)
    /\ ~In(ret.trace[i].g, call.words)

C13_StopsAtTrivialBound ==
    CostCall =>
        \A i \in 1..Len(ret.trace) :
            AtTrivialBound(i) =>
                /\ i = Len(ret.trace)
                /\ ret.value.cost = ret.trace[i].min_cost

\* what the code does: the return of line 204 is never taken, the guess is
\* skipped by line 198 and the loop goes on
C13_NeverStops ==
    CostCall =>
        \A i \in 1..Len(ret.trace) :
            /\ ret.trace[i].step # "stop"
            /\ AtTrivialBound(i) => ret.trace[i].step = "pruned"

\* a call on narrowed sets in which a candidate guess brought the best cost to
\* 2n and the loop then went through two more guesses that are not candidates
C13_LoopGoesOn ==
    /\ CostCall /\ NarrowedCall
    /\ call.alpha > 2 * Len(call.words)
    /\ \E i \in 1..Len(ret.trace) :
          /\ AtTrivialBound(i)
          /\ i + 1 <= Len(ret.trace)
          /\ ret.value.guess # None

(***************************************************************************)
(* C14: for every guess g and candidate set words of n >= 3 words, the     *)
(* bound n + 2 sum(counts) - (number of distinct results) - (1 if g is in  *)
(* words) is at most the least total cost of a strategy that plays g first *)
(* on words; so a guess skipped because its bound is >= the best cost so   *)
(* far could not have improved that cost.                                  *)
(***************************************************************************)
BoundOf(g) ==
    MinPossibleCost(Len(call.words), NpUnique(Row(g, call.words)).counts, g, call.words)

C14_BoundAdmissible ==
    (CostCall /\ Len(call.words) >= 3) =>
        /\ \A g \in CallG : BoundOf(g) <= PlayCost(g, CallW, CallG, call.d)
        /\ \A i \in 1..Len(ret.trace) :
              ret.trace[i].step = "pruned" =>
                  PlayCost(ret.trace[i].g, CallW, CallG, call.d) >= ret.trace[i].min_cost

\* a call that explored a guess and then skipped, by the bound, a guess that
\* playing would have cost more than the bound says; another guess of the call
\* has an exact bound
C14_Witness ==
    /\ CostCall /\ Len(call.words) >= 3 /\ call.d <= MaxDepth
    /\ ret.value.guess # None
    /\ \E g \in CallG : BoundOf(g) = PlayCost(g, CallW, CallG, call.d)
    /\ \E i, j \in 1..Len(ret.trace) :
          /\ i < j
          /\ ret.trace[i].step = "explored"
          /\ ret.trace[j].step = "pruned"
          /\ ret.trace[j].bound < PlayCost(ret.trace[j].g, CallW, CallG, call.d)

(***************************************************************************)
(* FastWordle (src/wordle.py): the second solver.  Its instance has the    *)
(* attributes of a HardWordle instance (the two constructors agree on      *)
(* them), so the variables above hold its state too.  Its solve_cost is    *)
(* translated on its own, from its own source, and returns the code's      *)
(* (guess, cost) only.                                                     *)
(***************************************************************************)
RECURSIVE fast_solve_cost(_, _, _, _)
RECURSIVE FastGuessLoop(_, _, _, _, _, _)
RECURSIVE FastResultLoop(_, _, _, _, _, _, _, _)

\* lines 135-149: cache_cost hands the call on and caches nothing
cache_cost(words, guess_words, alpha, d) == fast_solve_cost(words, guess_words, alpha, d)

\* lines 202-214: the cost of guess g after the results from position j of "order"
FastResultLoop(words, guess_words, g, order, j, cost, min_cost, d) ==
    IF j > Len(order) \/ cost >= min_cost THEN cost
    ELSE IF order[j] = 0
    THEN FastResultLoop(words, guess_words, g, order, j + 1, cost, min_cost, d)
    ELSE LET keep(s) == SelectSeq(s, LAMBDA x : M[g, x] = order[j])
         IN FastResultLoop(words, guess_words, g, order, j + 1,
                           cost + cache_cost(keep(words), keep(guess_words),
                                             min_cost - cost, d + 1).cost,
                           min_cost, d)

\* lines 170-229: the loop over the sorted guesses, from position i
FastGuessLoop(words, guess_words, i, min_guess, min_cost, d) ==
    IF i > Len(guess_words) THEN [guess |-> min_guess, cost |-> min_cost]
    ELSE
    LET g == guess_words[i]
        n == Len(words)
        results == [k \in 1..n |-> M[g, words[k]]]
        uc == NpUnique(results)
        g_in_words == \E k \in 1..n : words[k] = g
        min_possible_cost ==
            n + 2 * SumSeq(uc.counts) - Len(uc.counts) - (IF g_in_words THEN 1 ELSE 0)
        skip == FastGuessLoop(words, guess_words, i + 1, min_guess, min_cost, d)
    IN
    IF min_possible_cost >= min_cost THEN skip
    ELSE IF ~g_in_words /\ min_cost = 2 * n THEN [guess |-> min_guess, cost |-> min_cost]
    ELSE IF ~g_in_words /\ MaxSeq(uc.counts) = n THEN skip
    ELSE
    LET perm == NpArgsort(uc.counts)
        order == [k \in 1..Len(perm) |-> uc.unique[perm[k]]]
        cost == FastResultLoop(words, guess_words, g, order, 1, n, min_cost, d)
        guess1 == IF cost < min_cost THEN g ELSE min_guess
        cost1 == IF cost < min_cost THEN cost ELSE min_cost
    IN
    IF cost1 = 2 * Len(words) - 1 THEN [guess |-> guess1, cost |-> cost1]
    ELSE FastGuessLoop(words, guess_words, i + 1, guess1, cost1, d)

\* lines 151-229
fast_solve_cost(words, guess_words, alpha, d) ==
    IF d > 5 THEN [guess |-> None, cost |-> 10000]
    ELSE IF d = 5 /\ Len(words) > 1 THEN [guess |-> None, cost |-> 10000]
    ELSE IF Len(words) <= 2 THEN [guess |-> words[1], cost |-> 2 * Len(words) - 1]
    ELSE FastGuessLoop(words, NpSort(guess_words), 1, None, alpha, d)

(***************************************************************************)
(* FastWordle.solve.  The time limit is an input: expire_at is the         *)
(* position in global_guess_list at which the test of line 77 first finds  *)
(* the limit exceeded, 0 when it never does.                               *)
(***************************************************************************)
MaxExpire == 2       \* the time limit runs out at one of the first MaxExpire guesses, or never

\* line 104: self.results_dict[result] indexes a list with an entry of M, which
\* make_M creates with np.zeros (main.py line 32), a float64: TypeError
FailedPrintRaises(inc, alpha) == inc = alpha

RECURSIVE FastSolveResultLoop(_, _, _, _, _, _, _, _, _)
\* lines 89-113: the loop over the results of first guess g, from position j
FastSolveResultLoop(words, guess_words, g, order, j, cost, min_cost, h0, t0) ==
    IF j > Len(order)
    THEN [cost |-> cost, hist |-> h0, tree |-> t0, raised |-> FALSE]
    ELSE IF order[j] = 0
    THEN FastSolveResultLoop(words, guess_words, g, order, j + 1, cost, min_cost, h0, t0)
    ELSE
    LET result == order[j]
        h1 == Append(h0, result)
        new_words == SelectSeq(words, LAMBDA x : M[g, x] = result)
        new_guess_words == SelectSeq(guess_words, LAMBDA x : M[g, x] = result)
        alpha == min_cost - cost
        sub == cache_cost(new_words, new_guess_words, alpha, 1)
        t1 == TreePut(t0, h1, <<sub.guess, sub.cost>>)
        cost1 == cost + sub.cost
    IN
    IF FailedPrintRaises(sub.cost, alpha)
    THEN [cost |-> cost, hist |-> h1, tree |-> t1, raised |-> TRUE]
    ELSE IF cost1 >= min_cost
    THEN [cost |-> cost1, hist |-> Pop(h1), tree |-> t1, raised |-> FALSE]
    ELSE FastSolveResultLoop(words, guess_words, g, order, j + 1, cost1, min_cost,
                             Pop(h1), t1)

RECURSIVE FastSolveGuessLoop(_, _, _, _, _, _, _, _)
\* lines 75-121: the loop over self.global_guess_list, from position i
FastSolveGuessLoop(words, guess_words, i, guess, min_cost, h0, t0, expire_at) ==
    IF i > Len(global_guess_list)
    THEN [guess |-> guess, min_cost |-> min_cost, hist |-> h0, tree |-> t0,
          raised |-> FALSE, expired |-> FALSE]
    ELSE
    LET g == global_guess_list[i]
        h1 == Append(h0, g)
    IN
    IF i = expire_at
    THEN [guess |-> guess, min_cost |-> min_cost, hist |-> h1, tree |-> t0,
          raised |-> FALSE, expired |-> TRUE]
    ELSE
    LET uc == NpUnique([k \in 1..Len(words) |-> M[g, words[k]]])
        perm == NpArgsort(uc.counts)
        order == [k \in 1..Len(perm) |-> uc.unique[perm[k]]]
        rl == FastSolveResultLoop(words, guess_words, g, order, 1, Len(words), min_cost,
                                  h1, t0)
        better == rl.cost < min_cost
    IN
    IF rl.raised
    THEN [guess |-> guess, min_cost |-> min_cost, hist |-> rl.hist, tree |-> rl.tree,
          raised |-> TRUE, expired |-> FALSE]
    ELSE FastSolveGuessLoop(words, guess_words, i + 1,
                            IF better THEN g ELSE guess,
                            IF better THEN rl.cost ELSE min_cost,
                            Pop(rl.hist), rl.tree, expire_at)

\* lines 129-130: the entries whose history starts with the guess, and the
\* guess alone (no pair) at the empty path, written here as the 1-tuple
FastSolutionTree(t, guess) ==
    [k \in {x \in DOMAIN t : x[1] = guess} \cup {<<>>} |->
        IF k = <<>> THEN <<guess>> ELSE t[k]]

\* lines 61-133
FastSolve(words, guess_words, expire_at) ==
    \E out \in {FastSolveGuessLoop(words, guess_words, 1, None, 4 * Len(words),
                                  hist, tree, expire_at)} :
       /\ solves' = solves + 1
       /\ call' = [op |-> "fast_solve", words |-> words, guess_words |-> guess_words,
                   expire_at |-> expire_at]
       /\ hist' = out.hist
       /\ tree' = out.tree
       /\ ret' = IF out.raised \/ GuessWordRaises(out.guess)
                 THEN [kind |-> "TypeError", expired |-> out.expired]
                 ELSE [kind |-> "tree", tree |-> FastSolutionTree(out.tree, out.guess),
                       expired |-> out.expired]
       /\ UNCHANGED <<word_dict, guess_dict, guess_dict_kind, M, global_guess_list,
                      guess_order>>

\* a direct call of FastWordle.solve_cost
FastCallSolveCost(words, guess_words, alpha, d) ==
    /\ call' = [op |-> "fast_solve_cost", words |-> words, guess_words |-> guess_words,
                alpha |-> alpha, d |-> d]
    /\ ret' = [kind |-> "cost", value |-> fast_solve_cost(words, guess_words, alpha, d)]
    /\ UNCHANGED <<word_dict, guess_dict, guess_dict_kind, M, global_guess_list,
                   guess_order, hist, tree, solves>>

\* FastWordle.__init__ sets what HardWordle.__init__ sets (lines 27-53)
InitFast ==
    \E gd \in SmallDicts : \E m \in 1..Len(gd) :
       \E kind \in Kinds, ggl \in {l \in GuessLists(Len(gd)) : Len(l) <= 1} :
          Construct(gd, m, kind, ggl)

NextFast ==
    /\ solves < MaxSolves
    /\ \E p \in SolveArgs : \E expire_at \in 0..MaxExpire :
          FastSolve(p.words, p.guess_words, expire_at)

SpecFast == InitFast /\ [][NextFast]_vars

\* direct calls of FastWordle.solve_cost, on the instances and arguments of SpecCost
NextFastCost ==
    /\ call.op = "none"
    /\ \E G \in SUBSET (0..Len(guess_dict) - 1) :
         \E W \in (SUBSET (G \cap (0..Len(word_dict) - 1))) \ {{}} :
           \E alpha \in Alphas, d \in Depths :
             FastCallSolveCost(Ascending(W), Ascending(G), alpha, d)

SpecFastCost == InitCost /\ [][NextFastCost]_vars

(***************************************************************************)
(* C15: for identical inputs and no timeout expiry, HardWordle.solve and   *)
(* FastWordle.solve return identical trees (the same keys with the same    *)
(* values, the empty path included), and the two solve_cost return         *)
(* identical (guess, cost) pairs.  (solve is compared on fresh instances.) *)
(***************************************************************************)
FastSolveCall == call.op = "fast_solve"
FastCostCall == call.op = "fast_solve_cost"

\* HardWordle.solve on a fresh instance with the arguments of the call
HardOut ==
    SolveGuessLoop(call.words, call.guess_words, 1, None, InitialMinCost(call.words),
                   <<>>, <<>>, <<>>)

HardRaises == GuessWordRaises(HardOut.guess)

HardTree == SolutionTree(HardOut.tree, HardOut.guess, HardOut.min_cost)

HardCost ==
    LET r == solve_cost(call.words, call.guess_words, call.alpha, call.d)
    IN [guess |-> r.guess, cost |-> r.cost]

C15_SolversAgree ==
    /\ (FastSolveCall /\ solves = 1 /\ call.expire_at = 0) =>
          IF HardRaises THEN ret.kind = "TypeError"
          ELSE ret.kind = "tree" /\ ret.tree = HardTree
    /\ FastCostCall => ret.value = HardCost

\* what the code does keep (1): the two solve_cost agree
C15_SolveCostAgrees == FastCostCall => ret.value = HardCost

\* what the code does keep (2): when FastWordle.solve returns, its tree has the
\* keys of HardWordle's and the same values below the root, and at the root
\* the guess of HardWordle's pair; it raises where HardWordle.solve raises, and
\* where a partition costs exactly its alpha
C15_AgreeBelowRoot ==
    (FastSolveCall /\ solves = 1 /\ call.expire_at = 0) =>
        /\ HardRaises => ret.kind = "TypeError"
        /\ ret.kind = "tree" =>
              /\ ~HardRaises
              /\ DOMAIN ret.tree = DOMAIN HardTree
              /\ \A k \in DOMAIN ret.tree \ {<<>>} : ret.tree[k] = HardTree[k]
              /\ ret.tree[<<>>] = <<HardTree[<<>>][1]>>
        /\ (ret.kind = "TypeError" /\ ~HardRaises) =>
              \E i \in 1..Len(HardOut.calls) :
                 HardOut.calls[i].ret.cost = HardOut.calls[i].alpha

\* FastWordle.solve returned a tree with entries below the root
C15_FastReturned ==
    /\ FastSolveCall /\ solves = 1 /\ call.expire_at = 0
    /\ ret.kind = "tree"
    /\ Cardinality(DOMAIN ret.tree) >= 3

\* FastWordle.solve raised at line 104 where HardWordle.solve returns a tree
C15_FastRaisedAlone ==
    /\ FastSolveCall /\ solves = 1 /\ call.expire_at = 0
    /\ ret.kind = "TypeError"
    /\ ~HardRaises

(***************************************************************************)
(* C16: a solve_cost call started at depth d <= 5 terminates; every        *)
(* recursive call below it has a depth of at most 5, one more than its     *)
(* caller's (so the calls nest at most 6 deep from depth 0), and a         *)
(* candidate set strictly smaller than its caller's.                       *)
(***************************************************************************)
RECURSIVE NestedCalls(_, _, _)
\* every call of the call tree "calls" whose root caller has the candidates
\* "words" at depth d, each with its caller's candidates and depth
NestedCalls(calls, words, d) ==
    UNION {{[words |-> calls[i].words, d |-> calls[i].d,
             caller_words |-> words, caller_d |-> d]}
           \cup NestedCalls(calls[i].ret.calls, calls[i].words, calls[i].d)
           : i \in 1..Len(calls)}

C16_DepthBounded ==
    (CostCall /\ call.d <= 5) =>
        /\ ret.kind = "cost"
        /\ \A c \in NestedCalls(ret.value.calls, call.words, call.d) :
              /\ c.d <= 5
              /\ c.d = c.caller_d + 1
              /\ Len(c.words) >= 1
              /\ Len(c.words) < Len(c.caller_words)

\* a call two levels above the last depth whose recursion reached it: a call
\* on three candidates at depth 4 made a call on two at depth 5
C16_Witness ==
    /\ CostCall
    /\ call.d = 3
    /\ \E c \in NestedCalls(ret.value.calls, call.words, call.d) :
          /\ c.d = 5
          /\ Len(c.words) = 2
          /\ Len(c.caller_words) = 3

(***************************************************************************)
(* C17: in both solvers, after any sequence of solve invocations on one    *)
(* instance, those ended by the time limit included, the history stack is  *)
(* empty whenever solve returns, and every key recorded in the tree is a   *)
(* (guess, result) path of length 2.  (Stated here for FastWordle, the     *)
(* solver with the time limit.)                                            *)
(***************************************************************************)
C17_HistoryBalanced ==
    (FastSolveCall /\ ret.kind = "tree") =>
        /\ hist = <<>>
        /\ \A k \in DOMAIN tree : Len(k) = 2

\* what the code does keep (1): an invocation that starts with an empty stack,
\* is not ended by the time limit and returns, leaves the stack empty and
\* records keys of length 2 only
C17_BalancedWithoutExpiry ==
    [][(/\ hist = <<>>
        /\ call'.op = "fast_solve" /\ call'.expire_at = 0 /\ ret'.kind = "tree")
       => (/\ hist' = <<>>
           /\ \A k \in (DOMAIN tree') \ (DOMAIN tree) : Len(k) = 2)]_vars

\* what the code does keep (2): the same for HardWordle.solve, always
C17_HardWordleKeeps ==
    SolveCall => (hist = <<>> /\ \A k \in DOMAIN tree : Len(k) = 2)

\* an invocation that returned after one ended by the time limit, with a key of
\* odd length recorded
C17_OddKey ==
    /\ FastSolveCall /\ ret.kind = "tree" /\ solves = 2
    /\ call.expire_at = 0
    /\ hist # <<>>
    /\ \E k \in DOMAIN tree : Len(k) = 3

====
